---- MODULE Spec2Model ----
(***************************************************************************)
(* parse_report of analysis/parsey.py as a state machine.                   *)
(*                                                                         *)
(* One behaviour is one call of parse_report on one loaded report          *)
(* (`current`, the value json.load returns).  The locals of the function   *)
(* are the variables; `pc` is the position in the function body:           *)
(*   "prepare"    before line 72  (the record is loaded)                    *)
(*                a KeyError or AttributeError of lines 72-114 leaves here  *)
(*   "classify"   in the loop of lines 125-144, `i` crashes processed       *)
(*   "statistics" before line 146                                           *)
(*   "timing"     before line 165                                           *)
(*   "return"     before line 194                                           *)
(*   "done"       the Experiment was returned                               *)
(*   "raised"     an exception left the function                            *)
(*                                                                         *)
(* Numbers that Python computes with true division are kept as exact       *)
(* fractions [num, den] in lowest terms.                                    *)
(***************************************************************************)
EXTENDS Integers, Sequences, FiniteSets, TLC

\* ------------------------------------------------------------------ bounds

\* longest reported_crashes list of the main specification
MaxReported == 2
\* largest number_of_nodes / longest schedule of the expectation specification
MaxNodesExpect == 5
MaxScheduledExpect == 4

\* node ids and times that appear in the reports
NodeIds == {1, 2}
Deltas == {1, 2}
\* settings.number_of_nodes of the main specification
NodeCounts == {1, 2, 3}

\* ------------------------------------------------------------------ values

Unset == "unset"
NoException == "none"

Abs(x) == IF x < 0 THEN -x ELSE x

RECURSIVE GCD(_, _)
GCD(a, b) == IF b = 0 THEN a ELSE GCD(b, a % b)

\* the fraction n/d (d # 0) in lowest terms with a positive denominator
Rat(n, d) ==
    LET g == GCD(Abs(n), Abs(d))
        s == IF d < 0 THEN -1 ELSE 1
    IN  [num |-> (s * n) \div g, den |-> (s * d) \div g]

RatInt(n) == [num |-> n, den |-> 1]

RatSub(a, b) == Rat(a.num * b.den - b.num * a.den, a.den * b.den)

RatLeq(a, b) == a.num * b.den <= b.num * a.den

\* Python's a / b on numbers: ZeroDivisionError when b is zero
TrueDiv(a, b) ==
    IF b.num = 0
    THEN [raised |-> "ZeroDivisionError"]
    ELSE [raised |-> NoException, value |-> Rat(a.num * b.den, a.den * b.num)]

RECURSIVE SumSeq(_)
SumSeq(s) == IF s = <<>> THEN 0 ELSE Head(s) + SumSeq(Tail(s))

RECURSIVE SumSquares(_)
SumSquares(s) == IF s = <<>> THEN 0 ELSE Head(s) * Head(s) + SumSquares(Tail(s))

SeqRange(s) == {s[j] : j \in DOMAIN s}

SetMin(S) == CHOOSE x \in S : \A y \in S : x <= y
SetMax(S) == CHOOSE x \in S : \A y \in S : y <= x

SeqUpTo(S, n) == UNION {[1..k -> S] : k \in 0..n}

\* ------------------------------------------------------------------ input

ScheduledCrash == [node : NodeIds, delta : Deltas]
ReportedCrash == [node : NodeIds, reporter : NodeIds, delta : Deltas]

\* result.reappeared_nodes is optional: a result dict with or without the key
ResultDicts(scheduled, reported) ==
    [expected_crashes : scheduled, reported_crashes : reported]
    \cup [expected_crashes : scheduled, reported_crashes : reported,
          reappeared_nodes : {<<>>, <<1>>}]

\* the schedules the simulator writes: each node is scheduled at most once
Schedules ==
    {s \in SeqUpTo(ScheduledCrash, Cardinality(NodeIds)) :
        \A j, k \in DOMAIN s : j # k => s[j].node # s[k].node}

\* schedules that name one node twice
DuplicateSchedules ==
    {s \in [1..2 -> ScheduledCrash] : s[1].node = s[2].node}

Settings == [number_of_nodes : NodeCounts, simulate_catastrophe : BOOLEAN]

\* JSON null, None in Python
None == [none |-> TRUE]

\* a dict without keys
NoFields == [z \in {} |-> 0]

\* the id of a report: its "-"-joined parts <label>-<digits>, in order
IdPart(label, digits) == [label |-> label, digits |-> digits]
IdSeedRepetition == <<IdPart("seed", "7"), IdPart("repetition", "3")>>
IdSeedOnly == <<IdPart("seed", "7")>>
IdPlain == <<IdPart("run", "1")>>

\* the settings every report of the simulator carries; the times are fractions
CommonSettings ==
    [duration |-> 100000, gossip_delta |-> 100, failure_delta |-> RatInt(1000),
     push_pull |-> TRUE, pick_strategy |-> 0, enable_multicast |-> FALSE]

\* the multicast is disabled: its settings are null, no first multicast expected
SettingsNoMulticast ==
    [miss_delta |-> RatInt(1500), multicast_parameter |-> None,
     multicast_max_wait |-> None]

\* a report with the given settings.number_of_nodes / simulate_catastrophe and
\* result: the id encodes seed and repetition, the multicast is disabled
Report(core) ==
    [id |-> IdSeedRepetition,
     settings |-> core.settings @@ CommonSettings @@ SettingsNoMulticast,
     result |-> core.result]

\* the simulator schedules crashes of nodes of the run: no more entries than nodes
Records ==
    {Report(rec) :
        rec \in {r \in [settings : Settings,
                        result : ResultDicts(Schedules,
                                             SeqUpTo(ReportedCrash, MaxReported))]
                        \cup [settings : Settings,
                              result : ResultDicts(DuplicateSchedules,
                                                   SeqUpTo(ReportedCrash, 1))] :
                    Len(r.result.expected_crashes) <= r.settings.number_of_nodes}}

\* schedules of k distinct nodes 1..k, for the expectation specification
DistinctSchedule(k) == [j \in 1..k |-> [node |-> j, delta |-> 1]]

RecordsExpect ==
    {Report(rec) :
        rec \in [settings : [number_of_nodes : 0..MaxNodesExpect,
                             simulate_catastrophe : BOOLEAN],
                 result : ResultDicts({DistinctSchedule(k) : k \in 0..MaxScheduledExpect},
                                      SeqUpTo(ReportedCrash, 1))]}

\* the run of 5 nodes A..E = 1..5: A scheduled at 10 and B at 20, A reported by C
\* at 12, B by D at 25 and A by E at 15
ScenarioSchedule == <<[node |-> 1, delta |-> 10], [node |-> 2, delta |-> 20]>>

ScenarioReports ==
    <<[node |-> 1, reporter |-> 3, delta |-> 12],
      [node |-> 2, reporter |-> 4, delta |-> 25],
      [node |-> 1, reporter |-> 5, delta |-> 15]>>

ScenarioRecord ==
    Report([settings |-> [number_of_nodes |-> 5, simulate_catastrophe |-> FALSE],
            result |-> [expected_crashes |-> ScenarioSchedule,
                        reported_crashes |-> ScenarioReports]])

\* the scenario and the runs around it: other node counts, the other model, the
\* three reports in any order, with or without reappeared nodes
ScenarioRecords ==
    {Report(rec) :
        rec \in [settings : [number_of_nodes : {4, 5, 6}, simulate_catastrophe : BOOLEAN],
                 result : ResultDicts({ScenarioSchedule},
                              {[j \in 1..3 |-> ScenarioReports[p[j]]] :
                                  p \in {q \in [1..3 -> 1..3] :
                                             \A j, k \in 1..3 : q[j] = q[k] => j = k}})]}

\* one run of 2 nodes, node 1 scheduled at 1 and reported by node 2 at 1, in
\* reports that carry or lack each of the fields parse_report reads: the id with
\* or without seed and repetition, the seed and repetition fields, and the
\* settings miss_delta, multicast_max_wait, multicast_parameter and
\* expected_first_multicast absent, null or set
RecordsOptional ==
    {[id |-> id,
      settings |-> [number_of_nodes |-> 2, simulate_catastrophe |-> cat]
                       @@ CommonSettings @@ md @@ mw @@ mp @@ efm,
      result |-> [expected_crashes |-> <<[node |-> 1, delta |-> 1]>>,
                  reported_crashes |-> <<[node |-> 1, reporter |-> 2, delta |-> 1]>>]]
         @@ sd @@ rp :
        id \in {IdSeedRepetition, IdSeedOnly, IdPlain},
        cat \in BOOLEAN,
        sd \in {NoFields, [seed |-> 42]},
        rp \in {NoFields, [repetition |-> 2]},
        md \in {NoFields, [miss_delta |-> None], [miss_delta |-> RatInt(1500)]},
        mw \in {NoFields, [multicast_max_wait |-> None],
                [multicast_max_wait |-> RatInt(250)]},
        mp \in {NoFields, [multicast_parameter |-> 3]},
        efm \in {NoFields, [expected_first_multicast |-> None],
                 [expected_first_multicast |-> RatInt(333)]}}

\* ------------------------------------------------------------------ parse_report, its parts

\* re.search('<label>-([0-9]+)', _id): the first part of the id with the label,
\* None when there is none
Search(label, id) ==
    IF \E j \in DOMAIN id : id[j].label = label
    THEN LET first == CHOOSE j \in DOMAIN id :
                          /\ id[j].label = label
                          /\ \A k \in DOMAIN id : id[k].label = label => j <= k
         IN  [group1 |-> id[first].digits]
    ELSE None

\* lines 73-76 and 77-80: the field of the report, else the digits of the id;
\* .group(1) of None is an AttributeError
FieldOrId(rec, field) ==
    IF field \in DOMAIN rec
    THEN [raised |-> NoException, value |-> rec[field]]
    ELSE LET match == Search(field, rec.id)
         IN  IF match = None
             THEN [raised |-> "AttributeError"]
             ELSE [raised |-> NoException, value |-> match.group1]

\* round(q, 2) of a fraction q >= 0: the nearest hundredth, a tie to the even one
Round2(q) ==
    LET floor == (q.num * 100) \div q.den
        rest == q.num * 100 - floor * q.den
    IN  IF 2 * rest < q.den THEN Rat(floor, 100)
        ELSE IF 2 * rest > q.den THEN Rat(floor + 1, 100)
        ELSE IF floor % 2 = 0 THEN Rat(floor, 100)
        ELSE Rat(floor + 1, 100)

\* lines 96-99, 105-108, 111-114: 0 for None, else the rounded quotient
Ratio(x, failure_delta) ==
    IF x = None
    THEN [raised |-> NoException, value |-> RatInt(0)]
    ELSE LET q == TrueDiv(x, failure_delta)
         IN  IF q.raised # NoException
             THEN q
             ELSE [raised |-> NoException, value |-> Round2(q.value)]

\* lines 101-104: only the KeyError of expected_first_multicast is caught
ExpectedFirstMulticast(settings) ==
    IF "expected_first_multicast" \in DOMAIN settings
    THEN settings.expected_first_multicast
    ELSE None

\* lines 72-114: the identity and the ratios, or the exception that leaves the
\* function: the subscripts of lines 95 and 110 are outside any try
Header(rec) ==
    LET sd == FieldOrId(rec, "seed")
        rp == FieldOrId(rec, "repetition")
        failure_delta == rec.settings.failure_delta
        efm == ExpectedFirstMulticast(rec.settings)
        r_wait == Ratio(rec.settings.multicast_max_wait, failure_delta)
        r_first == Ratio(efm, failure_delta)
        r_miss == Ratio(rec.settings.miss_delta, failure_delta)
    IN  IF sd.raised # NoException THEN [raised |-> sd.raised]
        ELSE IF rp.raised # NoException THEN [raised |-> rp.raised]
        ELSE IF "multicast_max_wait" \notin DOMAIN rec.settings
        THEN [raised |-> "KeyError"]
        ELSE IF r_wait.raised # NoException THEN [raised |-> r_wait.raised]
        ELSE IF r_first.raised # NoException THEN [raised |-> r_first.raised]
        ELSE IF "miss_delta" \notin DOMAIN rec.settings
        THEN [raised |-> "KeyError"]
        ELSE IF r_miss.raised # NoException THEN [raised |-> r_miss.raised]
        ELSE [raised |-> NoException,
              seed |-> sd.value,
              repetition |-> rp.value,
              expected_first_multicast |-> efm,
              ratio_max_wait_and_failure |-> r_wait.value,
              ratio_expected_first_multicast |-> r_first.value,
              ratio_miss_delta |-> r_miss.value]

NodeAndReporter(node, reporter) == [node |-> node, reporter |-> reporter]

\* lines 88-91
NReappeared(rec) ==
    IF "reappeared_nodes" \in DOMAIN rec.result
    THEN Len(rec.result.reappeared_nodes)
    ELSE 0

\* line 117: a dict comprehension, a later entry of a node replaces an earlier one
ExpectedCrashesMap(expected) ==
    [n \in {expected[j].node : j \in DOMAIN expected} |->
        LET last == CHOOSE j \in DOMAIN expected :
                        /\ expected[j].node = n
                        /\ \A k \in DOMAIN expected : expected[k].node = n => k <= j
        IN  expected[last].delta]

\* lines 120-122.  correct_crashes is a dict: its items in insertion order;
\* duplicated_crashes and wrong_crashes are lists of references to the crash
\* objects of reported_crashes: the positions of those objects in the list.
\* correct_src is a history variable: the position of the report that
\* created each item of correct_crashes.
EmptyClassification ==
    [correct_crashes |-> <<>>, correct_src |-> <<>>,
     duplicated_crashes |-> <<>>, wrong_crashes |-> <<>>]

\* faulty variant of line 135: the reporter of the key is not looked at
HasKeyByNode(correct_crashes, key) ==
    \E j \in DOMAIN correct_crashes : correct_crashes[j].key.node = key.node

\* line 135: key in correct_crashes
HasKey(correct_crashes, key) ==
    \E j \in DOMAIN correct_crashes : correct_crashes[j].key = key

\* faulty variant of line 132: > in place of >=
IsCorrectCrashStrict(map, crash) ==
    crash.node \in DOMAIN map /\ crash.delta > map[crash.node]

\* faulty variant of line 132: the delta of the report is not looked at
IsCorrectCrashAnyDelta(map, crash) == crash.node \in DOMAIN map

\* line 132
IsCorrectCrash(map, crash) ==
    crash.node \in DOMAIN map /\ crash.delta >= map[crash.node]

\* faulty variant of lines 126-144: a later report with a smaller delta replaces
\* the item of correct and is not counted as duplicated
ClassifyCrashKeepEarliest(map, cls, idx, crash) ==
    LET key == NodeAndReporter(crash.node, crash.reporter)
        at == CHOOSE j \in DOMAIN cls.correct_crashes : cls.correct_crashes[j].key = key
    IN  IF IsCorrectCrash(map, crash)
        THEN IF ~HasKey(cls.correct_crashes, key)
             THEN [cls EXCEPT !.correct_crashes =
                                   Append(@, [key |-> key, delta |-> crash.delta]),
                              !.correct_src = Append(@, idx)]
             ELSE IF crash.delta < cls.correct_crashes[at].delta
                  THEN [cls EXCEPT !.correct_crashes[at].delta = crash.delta,
                                   !.correct_src[at] = idx]
                  ELSE [cls EXCEPT !.duplicated_crashes = Append(@, idx)]
        ELSE [cls EXCEPT !.wrong_crashes = Append(@, idx)]

\* faulty variant of lines 126-144: a duplicated report is appended to wrong too
ClassifyCrashFallThrough(map, cls, idx, crash) ==
    LET key == NodeAndReporter(crash.node, crash.reporter)
    IN  IF IsCorrectCrash(map, crash)
        THEN IF ~HasKey(cls.correct_crashes, key)
             THEN [cls EXCEPT !.correct_crashes =
                                   Append(@, [key |-> key, delta |-> crash.delta]),
                              !.correct_src = Append(@, idx)]
             ELSE [cls EXCEPT !.duplicated_crashes = Append(@, idx),
                              !.wrong_crashes = Append(@, idx)]
        ELSE [cls EXCEPT !.wrong_crashes = Append(@, idx)]

\* faulty variant of lines 126-144: line 136 also runs for a duplicated report
ClassifyCrashOverwrite(map, cls, idx, crash) ==
    LET key == NodeAndReporter(crash.node, crash.reporter)
        at == CHOOSE j \in DOMAIN cls.correct_crashes : cls.correct_crashes[j].key = key
    IN  IF IsCorrectCrash(map, crash)
        THEN IF ~HasKey(cls.correct_crashes, key)
             THEN [cls EXCEPT !.correct_crashes =
                                   Append(@, [key |-> key, delta |-> crash.delta]),
                              !.correct_src = Append(@, idx)]
             ELSE [cls EXCEPT !.correct_crashes[at].delta = crash.delta,
                              !.duplicated_crashes = Append(@, idx)]
        ELSE [cls EXCEPT !.wrong_crashes = Append(@, idx)]

\* lines 126-144: one iteration of the loop, on the crash at position idx
ClassifyCrash(map, cls, idx, crash) ==
    LET key == NodeAndReporter(crash.node, crash.reporter)
    IN  IF IsCorrectCrash(map, crash)
        THEN IF ~HasKey(cls.correct_crashes, key)
             THEN [cls EXCEPT !.correct_crashes =
                                   Append(@, [key |-> key, delta |-> crash.delta]),
                              !.correct_src = Append(@, idx)]
             ELSE [cls EXCEPT !.duplicated_crashes = Append(@, idx)]
        ELSE [cls EXCEPT !.wrong_crashes = Append(@, idx)]

\* lines 125-144: the loop over the first k reported crashes
RECURSIVE ClassifyPrefix(_, _, _)
ClassifyPrefix(map, reported, k) ==
    IF k = 0
    THEN EmptyClassification
    ELSE ClassifyCrash(map, ClassifyPrefix(map, reported, k - 1), k, reported[k])

\* faulty variant of line 151: one survivor too few
ExpectedCatastropheOffByOne(n_sched, n_nodes) ==
    RatInt(n_sched * (n_nodes - n_sched - 1))

\* line 151
ExpectedCatastrophe(n_sched, n_nodes) == RatInt(n_sched * (n_nodes - n_sched))

\* faulty variant of line 155: the division by 2 is missing
ExpectedSequentialNoHalf(n_sched, n_nodes) ==
    RatSub(RatInt(n_sched * n_nodes), RatInt(n_sched * (n_sched + 1)))

\* faulty variant of line 155: n_scheduled - 1 in place of n_scheduled + 1
ExpectedSequentialOffByOne(n_sched, n_nodes) ==
    RatSub(RatInt(n_sched * n_nodes), Rat(n_sched * (n_sched - 1), 2))

\* line 155
ExpectedSequential(n_sched, n_nodes) ==
    RatSub(RatInt(n_sched * n_nodes), Rat(n_sched * (n_sched + 1), 2))

\* lines 150-155
NExpectedDetected(n_sched, n_nodes, simulate_catastrophe) ==
    IF simulate_catastrophe
    THEN ExpectedCatastrophe(n_sched, n_nodes)
    ELSE ExpectedSequential(n_sched, n_nodes)

\* faulty variant of line 160: a zero expectation gives the rate 0
RateOrZero(n_det, n_expected) ==
    IF n_expected.num = 0
    THEN [raised |-> NoException, value |-> RatInt(0)]
    ELSE TrueDiv(RatInt(n_det), n_expected)

\* line 160
RateDetected(n_det, n_expected) == TrueDiv(RatInt(n_det), n_expected)

\* faulty variant of line 163: n_reappeared is not looked at (as in main.py:151)
VerdictIgnoringReappeared(n_expected, n_det, n_dup, n_wr, n_reapp) ==
    n_expected = RatInt(n_det) /\ n_dup = 0 /\ n_wr = 0

\* line 163
Verdict(n_expected, n_det, n_dup, n_wr, n_reapp) ==
    n_expected = RatInt(n_det) /\ n_dup = 0 /\ n_wr = 0 /\ n_reapp = 0

\* lines 146-163
Statistics(rec, cls, n_reapp) ==
    LET n_sched == Len(rec.result.expected_crashes)
        n_expected == NExpectedDetected(n_sched, rec.settings.number_of_nodes,
                                        rec.settings.simulate_catastrophe)
        n_det == Len(cls.correct_crashes)
        n_dup == Len(cls.duplicated_crashes)
        n_wr == Len(cls.wrong_crashes)
        rate == RateDetected(n_det, n_expected)
        counts == [n_scheduled |-> n_sched, n_expected_detected |-> n_expected,
                   n_detected |-> n_det, n_duplicated |-> n_dup, n_wrong |-> n_wr]
    IN  IF rate.raised # NoException
        THEN [raised |-> rate.raised] @@ counts
        ELSE [raised |-> NoException, rate_detected_crashes |-> rate.value,
              correct |-> Verdict(n_expected, n_det, n_dup, n_wr, n_reapp)] @@ counts

\* lines 167-172: the delays in the order of correct_crashes.items()
Delays(map, correct_crashes) ==
    [j \in DOMAIN correct_crashes |->
        correct_crashes[j].delta - map[correct_crashes[j].key.node]]

\* line 171
DelaysAssertionHolds(map, correct_crashes) ==
    \A j \in DOMAIN correct_crashes :
        correct_crashes[j].delta >= map[correct_crashes[j].key.node]

\* lines 173-177: statistics.mean, -1 on the StatisticsError of an empty sample
DetectTimeAverage(delays) ==
    IF Len(delays) = 0 THEN RatInt(-1) ELSE Rat(SumSeq(delays), Len(delays))

\* faulty variant of lines 178-182: the population deviation, defined for one value
DetectTimeStdevPopulation(delays) ==
    IF Len(delays) < 1
    THEN RatInt(-1)
    ELSE [sqrt_of |-> Rat(Len(delays) * SumSquares(delays)
                              - SumSeq(delays) * SumSeq(delays),
                          Len(delays) * Len(delays))]

\* lines 178-182: statistics.stdev (the square root of the sample variance),
\* -1 on the StatisticsError of a sample of fewer than two values
DetectTimeStdev(delays) ==
    IF Len(delays) < 2
    THEN RatInt(-1)
    ELSE [sqrt_of |-> Rat(Len(delays) * SumSquares(delays)
                              - SumSeq(delays) * SumSeq(delays),
                          Len(delays) * (Len(delays) - 1))]

\* faulty variant of line 187: the first item of correct_crashes, not the minimum
DetectTimeFirstInserted(correct_crashes) ==
    IF Len(correct_crashes) > 0 THEN correct_crashes[1].delta ELSE -1

\* lines 185-187, 190
DetectTimeFirst(correct_crashes) ==
    IF Len(correct_crashes) > 0
    THEN SetMin({correct_crashes[j].delta : j \in DOMAIN correct_crashes})
    ELSE -1

\* lines 185-186, 188, 191
DetectTimeLast(correct_crashes) ==
    IF Len(correct_crashes) > 0
    THEN SetMax({correct_crashes[j].delta : j \in DOMAIN correct_crashes})
    ELSE -1

\* lines 165-191
Timing(map, cls) ==
    IF ~DelaysAssertionHolds(map, cls.correct_crashes)
    THEN [raised |-> "AssertionError"]
    ELSE LET d == Delays(map, cls.correct_crashes)
         IN  [raised |-> NoException,
              delays |-> d,
              detect_time_average |-> DetectTimeAverage(d),
              detect_time_stdev |-> DetectTimeStdev(d),
              detect_time_first |-> DetectTimeFirst(cls.correct_crashes),
              detect_time_last |-> DetectTimeLast(cls.correct_crashes)]

\* lines 205-215: the settings subscripted in the call of Experiment
SettingsOfExperiment ==
    {"simulate_catastrophe", "duration", "gossip_delta", "miss_delta", "push_pull",
     "pick_strategy", "enable_multicast", "multicast_parameter",
     "multicast_max_wait"}

\* lines 194-234: the identity, settings and statistics of the Experiment (the
\* group is the caller's argument, passed through)
Experiment(rec, hd, n_reapp, st, tm) ==
    [id |-> rec.id,
     seed |-> hd.seed,
     repetition |-> hd.repetition,
     simulate_catastrophe |-> rec.settings.simulate_catastrophe,
     number_of_nodes |-> rec.settings.number_of_nodes,
     duration |-> rec.settings.duration,
     gossip_delta |-> rec.settings.gossip_delta,
     failure_delta |-> rec.settings.failure_delta,
     miss_delta |-> rec.settings.miss_delta,
     push_pull |-> rec.settings.push_pull,
     pick_strategy |-> rec.settings.pick_strategy,
     enable_multicast |-> rec.settings.enable_multicast,
     multicast_parameter |-> rec.settings.multicast_parameter,
     multicast_max_wait |-> rec.settings.multicast_max_wait,
     expected_first_multicast |-> hd.expected_first_multicast,
     ratio_max_wait_and_failure |-> hd.ratio_max_wait_and_failure,
     ratio_expected_first_multicast |-> hd.ratio_expected_first_multicast,
     ratio_miss_delta |-> hd.ratio_miss_delta,
     correct |-> st.correct,
     n_scheduled_crashes |-> st.n_scheduled,
     n_expected_detected_crashes |-> st.n_expected_detected,
     n_correctly_detected_crashes |-> st.n_detected,
     n_duplicated_reported_crashes |-> st.n_duplicated,
     n_wrongly_reported_crashes |-> st.n_wrong,
     n_reappeared |-> n_reapp,
     rate_detected_crashes |-> st.rate_detected_crashes,
     detect_time_average |-> tm.detect_time_average,
     detect_time_stdev |-> tm.detect_time_stdev,
     detect_time_first |-> tm.detect_time_first,
     detect_time_last |-> tm.detect_time_last]

\* lines 194-234: a setting missing from the report is a KeyError
ReturnExperiment(rec, hd, n_reapp, st, tm) ==
    IF \E k \in SettingsOfExperiment : k \notin DOMAIN rec.settings
    THEN [raised |-> "KeyError"]
    ELSE [raised |-> NoException, value |-> Experiment(rec, hd, n_reapp, st, tm)]

\* lines 60-234: the whole function, what it raises or returns
ParseReport(rec) ==
    LET hd == Header(rec)
        n_reapp == NReappeared(rec)
        map == ExpectedCrashesMap(rec.result.expected_crashes)
        cls == ClassifyPrefix(map, rec.result.reported_crashes,
                              Len(rec.result.reported_crashes))
        st == Statistics(rec, cls, n_reapp)
        tm == Timing(map, cls)
    IN  IF hd.raised # NoException THEN [raised |-> hd.raised]
        ELSE IF st.raised # NoException THEN [raised |-> st.raised]
        ELSE IF tm.raised # NoException THEN [raised |-> tm.raised]
        ELSE ReturnExperiment(rec, hd, n_reapp, st, tm)

\* ------------------------------------------------------------------ parse_report of main.py, its parts

\* main.py lines 71-101: the identity and the two ratios (miss_delta is not read
\* here); the subscript of line 88 is outside any try
HeaderMain(rec) ==
    LET sd == FieldOrId(rec, "seed")
        rp == FieldOrId(rec, "repetition")
        failure_delta == rec.settings.failure_delta
        efm == ExpectedFirstMulticast(rec.settings)
        r_wait == Ratio(rec.settings.multicast_max_wait, failure_delta)
        r_first == Ratio(efm, failure_delta)
    IN  IF sd.raised # NoException THEN [raised |-> sd.raised]
        ELSE IF rp.raised # NoException THEN [raised |-> rp.raised]
        ELSE IF "multicast_max_wait" \notin DOMAIN rec.settings
        THEN [raised |-> "KeyError"]
        ELSE IF r_wait.raised # NoException THEN [raised |-> r_wait.raised]
        ELSE IF r_first.raised # NoException THEN [raised |-> r_first.raised]
        ELSE [raised |-> NoException,
              seed |-> sd.value,
              repetition |-> rp.value,
              expected_first_multicast |-> efm,
              ratio_max_wait_and_failure |-> r_wait.value,
              ratio_expected_first_multicast_and_failure |-> r_first.value]

\* main.py lines 107-109.  The three collections are dicts: their items in
\* insertion order.  correct_src is the history variable of the parsey.py model.
EmptyClassificationMain ==
    [correct_crashes |-> <<>>, correct_src |-> <<>>,
     duplicated_crashes |-> <<>>, wrong_crashes |-> <<>>]

\* main.py lines 128, 132: d[key] = delta, the item of a key already in the dict
\* keeps its place and takes the new delta
DictSet(items, key, delta) ==
    IF HasKey(items, key)
    THEN [j \in DOMAIN items |->
             IF items[j].key = key THEN [key |-> key, delta |-> delta] ELSE items[j]]
    ELSE Append(items, [key |-> key, delta |-> delta])

\* main.py lines 113-132: one iteration of the loop, on the crash at position idx
ClassifyCrashMain(map, cls, idx, crash) ==
    LET key == NodeAndReporter(crash.node, crash.reporter)
    IN  IF crash.node \in DOMAIN map
        THEN IF crash.delta >= map[crash.node] /\ ~HasKey(cls.correct_crashes, key)
             THEN [cls EXCEPT !.correct_crashes =
                                   Append(@, [key |-> key, delta |-> crash.delta]),
                              !.correct_src = Append(@, idx)]
             ELSE [cls EXCEPT !.duplicated_crashes = DictSet(@, key, crash.delta)]
        ELSE [cls EXCEPT !.wrong_crashes = DictSet(@, key, crash.delta)]

\* main.py lines 112-132: the loop over the first k reported crashes
RECURSIVE ClassifyPrefixMain(_, _, _)
ClassifyPrefixMain(map, reported, k) ==
    IF k = 0
    THEN EmptyClassificationMain
    ELSE ClassifyCrashMain(map, ClassifyPrefixMain(map, reported, k - 1), k,
                           reported[k])

\* main.py lines 138-143
NExpectedDetectedMain(n_sched, n_nodes, simulate_catastrophe) ==
    IF simulate_catastrophe
    THEN RatInt(n_sched * (n_nodes - n_sched))
    ELSE RatSub(RatInt(n_sched * n_nodes), Rat(n_sched * (n_sched + 1), 2))

\* main.py line 151
VerdictMain(n_expected, n_det, n_dup, n_wr) ==
    n_expected = RatInt(n_det) /\ n_dup = 0 /\ n_wr = 0

\* main.py lines 135-151
StatisticsMain(rec, cls) ==
    LET n_sched == Len(rec.result.expected_crashes)
        n_expected == NExpectedDetectedMain(n_sched, rec.settings.number_of_nodes,
                                            rec.settings.simulate_catastrophe)
        n_det == Len(cls.correct_crashes)
        n_dup == Len(cls.duplicated_crashes)
        n_wr == Len(cls.wrong_crashes)
        rate == TrueDiv(RatInt(n_det), n_expected)
        counts == [n_scheduled |-> n_sched, n_expected_detected |-> n_expected,
                   n_detected |-> n_det, n_duplicated |-> n_dup, n_wrong |-> n_wr]
    IN  IF rate.raised # NoException
        THEN [raised |-> rate.raised] @@ counts
        ELSE [raised |-> NoException, rate_detected_crashes |-> rate.value,
              correct |-> VerdictMain(n_expected, n_det, n_dup, n_wr)] @@ counts

\* main.py lines 154-169: the assertion of line 158, the delays in the order of
\* correct_crashes.items(), their mean and deviation with the sentinels -1
TimingMain(map, cls) ==
    IF \E j \in DOMAIN cls.correct_crashes :
           cls.correct_crashes[j].delta < map[cls.correct_crashes[j].key.node]
    THEN [raised |-> "AssertionError"]
    ELSE LET d == [j \in DOMAIN cls.correct_crashes |->
                      cls.correct_crashes[j].delta
                          - map[cls.correct_crashes[j].key.node]]
         IN  [raised |-> NoException,
              delays |-> d,
              detect_time_average |-> DetectTimeAverage(d),
              detect_time_stdev |-> DetectTimeStdev(d)]

\* main.py lines 183-193: the settings subscripted in the call of Experiment
SettingsOfExperimentMain ==
    {"simulate_catastrophe", "duration", "gossip_delta", "miss_delta", "push_pull",
     "pick_strategy", "enable_multicast", "multicast_parameter",
     "multicast_max_wait"}

\* main.py lines 172-208
ExperimentMain(rec, hd, st, tm) ==
    [id |-> rec.id,
     seed |-> hd.seed,
     repetition |-> hd.repetition,
     simulate_catastrophe |-> rec.settings.simulate_catastrophe,
     number_of_nodes |-> rec.settings.number_of_nodes,
     duration |-> rec.settings.duration,
     gossip_delta |-> rec.settings.gossip_delta,
     failure_delta |-> rec.settings.failure_delta,
     miss_delta |-> rec.settings.miss_delta,
     push_pull |-> rec.settings.push_pull,
     pick_strategy |-> rec.settings.pick_strategy,
     enable_multicast |-> rec.settings.enable_multicast,
     multicast_parameter |-> rec.settings.multicast_parameter,
     multicast_max_wait |-> rec.settings.multicast_max_wait,
     expected_first_multicast |-> hd.expected_first_multicast,
     ratio_max_wait_and_failure |-> hd.ratio_max_wait_and_failure,
     ratio_expected_first_multicast_and_failure |->
         hd.ratio_expected_first_multicast_and_failure,
     correct |-> st.correct,
     n_scheduled_crashes |-> st.n_scheduled,
     n_expected_detected_crashes |-> st.n_expected_detected,
     n_correctly_detected_crashes |-> st.n_detected,
     n_duplicated_reported_crashes |-> st.n_duplicated,
     n_wrongly_reported_crashes |-> st.n_wrong,
     rate_detected_crashes |-> st.rate_detected_crashes,
     detect_time_average |-> tm.detect_time_average,
     detect_time_stdev |-> tm.detect_time_stdev]

\* main.py lines 172-208: a setting missing from the report is a KeyError
ReturnExperimentMain(rec, hd, st, tm) ==
    IF \E k \in SettingsOfExperimentMain : k \notin DOMAIN rec.settings
    THEN [raised |-> "KeyError"]
    ELSE [raised |-> NoException, value |-> ExperimentMain(rec, hd, st, tm)]

\* main.py lines 58-208: the whole function, what it raises or returns
ParseReportMain(rec) ==
    LET hd == HeaderMain(rec)
        map == ExpectedCrashesMap(rec.result.expected_crashes)
        cls == ClassifyPrefixMain(map, rec.result.reported_crashes,
                                  Len(rec.result.reported_crashes))
        st == StatisticsMain(rec, cls)
        tm == TimingMain(map, cls)
    IN  IF hd.raised # NoException THEN [raised |-> hd.raised]
        ELSE IF st.raised # NoException THEN [raised |-> st.raised]
        ELSE IF tm.raised # NoException THEN [raised |-> tm.raised]
        ELSE ReturnExperimentMain(rec, hd, st, tm)

\* ------------------------------------------------------------------ state

VARIABLES
    current,                \* the loaded report (line 70)
    pc,                     \* position in parse_report
    i,                      \* reported crashes processed by the loop of line 125
    seed,
    repetition,
    expected_first_multicast,
    ratio_max_wait_and_failure,
    ratio_expected_first_multicast,
    ratio_miss_delta,
    n_reappeared,
    expected_crashes_map,
    correct_crashes,
    correct_src,            \* history: the report behind each item of correct_crashes
    duplicated_crashes,
    wrong_crashes,
    n_scheduled,
    n_expected_detected,
    n_detected,
    n_duplicated,
    n_wrong,
    rate_detected_crashes,
    correct,
    delays,
    detect_time_average,
    detect_time_stdev,
    detect_time_first,
    detect_time_last,
    result,                 \* the returned Experiment
    raised                  \* the exception that left parse_report

header == <<seed, repetition, expected_first_multicast, ratio_max_wait_and_failure,
            ratio_expected_first_multicast, ratio_miss_delta>>

classification == <<correct_crashes, correct_src, duplicated_crashes, wrong_crashes>>

statistics == <<n_scheduled, n_expected_detected, n_detected, n_duplicated, n_wrong,
                rate_detected_crashes, correct>>

timing == <<delays, detect_time_average, detect_time_stdev, detect_time_first,
            detect_time_last>>

vars == <<current, pc, i, header, n_reappeared, expected_crashes_map, classification,
          statistics, timing, result, raised>>

reported_crashes == current.result.reported_crashes
expected_crashes == current.result.expected_crashes

\* the three collections of the classifier as one value
Classification ==
    [correct_crashes |-> correct_crashes, correct_src |-> correct_src,
     duplicated_crashes |-> duplicated_crashes, wrong_crashes |-> wrong_crashes]

\* parse_report is entered with the record `rec` loaded, no local assigned yet
Entered(rec) ==
    /\ current = rec
    /\ pc = "prepare"
    /\ i = 0
    /\ seed = Unset
    /\ repetition = Unset
    /\ expected_first_multicast = Unset
    /\ ratio_max_wait_and_failure = Unset
    /\ ratio_expected_first_multicast = Unset
    /\ ratio_miss_delta = Unset
    /\ n_reappeared = Unset
    /\ expected_crashes_map = Unset
    /\ correct_crashes = Unset
    /\ correct_src = Unset
    /\ duplicated_crashes = Unset
    /\ wrong_crashes = Unset
    /\ n_scheduled = Unset
    /\ n_expected_detected = Unset
    /\ n_detected = Unset
    /\ n_duplicated = Unset
    /\ n_wrong = Unset
    /\ rate_detected_crashes = Unset
    /\ correct = Unset
    /\ delays = Unset
    /\ detect_time_average = Unset
    /\ detect_time_stdev = Unset
    /\ detect_time_first = Unset
    /\ detect_time_last = Unset
    /\ result = Unset
    /\ raised = NoException

Init == \E rec \in Records : Entered(rec)

InitExpect == \E rec \in RecordsExpect : Entered(rec)

InitScenario == \E rec \in ScenarioRecords : Entered(rec)

InitOptional == \E rec \in RecordsOptional : Entered(rec)

\* where the loop of line 125 goes once k crashes are processed
AfterCrash(k) == IF k < Len(reported_crashes) THEN "classify" ELSE "statistics"

\* lines 72-122: the locals read from the record, the map and the empty
\* collections; the AttributeError of lines 76 and 80 and the KeyError of lines
\* 95 and 110 leave the function
Prepare ==
    /\ pc = "prepare"
    /\ LET hd == Header(current)
       IN  IF hd.raised # NoException
           THEN /\ raised' = hd.raised
                /\ pc' = "raised"
                /\ UNCHANGED <<header, n_reappeared, expected_crashes_map,
                               classification>>
           ELSE /\ seed' = hd.seed
                /\ repetition' = hd.repetition
                /\ expected_first_multicast' = hd.expected_first_multicast
                /\ ratio_max_wait_and_failure' = hd.ratio_max_wait_and_failure
                /\ ratio_expected_first_multicast' = hd.ratio_expected_first_multicast
                /\ ratio_miss_delta' = hd.ratio_miss_delta
                /\ n_reappeared' = NReappeared(current)
                /\ expected_crashes_map' = ExpectedCrashesMap(expected_crashes)
                /\ correct_crashes' = EmptyClassification.correct_crashes
                /\ correct_src' = EmptyClassification.correct_src
                /\ duplicated_crashes' = EmptyClassification.duplicated_crashes
                /\ wrong_crashes' = EmptyClassification.wrong_crashes
                /\ pc' = AfterCrash(0)
                /\ UNCHANGED raised
    /\ UNCHANGED <<current, i, statistics, timing, result>>

\* lines 125-144: one iteration of the loop
Classify ==
    /\ pc = "classify"
    /\ i < Len(reported_crashes)
    /\ LET cls == ClassifyCrash(expected_crashes_map, Classification, i + 1,
                                reported_crashes[i + 1])
       IN  /\ correct_crashes' = cls.correct_crashes
           /\ correct_src' = cls.correct_src
           /\ duplicated_crashes' = cls.duplicated_crashes
           /\ wrong_crashes' = cls.wrong_crashes
    /\ i' = i + 1
    /\ pc' = AfterCrash(i + 1)
    /\ UNCHANGED <<current, header, n_reappeared, expected_crashes_map, statistics,
                   timing, result, raised>>

\* lines 146-163: the ZeroDivisionError of line 160 leaves the function
ComputeStatistics ==
    /\ pc = "statistics"
    /\ LET st == Statistics(current, Classification, n_reappeared)
       IN  /\ n_scheduled' = st.n_scheduled
           /\ n_expected_detected' = st.n_expected_detected
           /\ n_detected' = st.n_detected
           /\ n_duplicated' = st.n_duplicated
           /\ n_wrong' = st.n_wrong
           /\ IF st.raised # NoException
              THEN /\ raised' = st.raised
                   /\ pc' = "raised"
                   /\ UNCHANGED <<rate_detected_crashes, correct>>
              ELSE /\ rate_detected_crashes' = st.rate_detected_crashes
                   /\ correct' = st.correct
                   /\ pc' = "timing"
                   /\ UNCHANGED raised
    /\ UNCHANGED <<current, i, header, n_reappeared, expected_crashes_map,
                   classification, timing, result>>

\* lines 165-191: the AssertionError of line 171 leaves the function
ComputeTiming ==
    /\ pc = "timing"
    /\ LET tm == Timing(expected_crashes_map, Classification)
       IN  IF tm.raised # NoException
           THEN /\ raised' = tm.raised
                /\ pc' = "raised"
                /\ UNCHANGED timing
           ELSE /\ delays' = tm.delays
                /\ detect_time_average' = tm.detect_time_average
                /\ detect_time_stdev' = tm.detect_time_stdev
                /\ detect_time_first' = tm.detect_time_first
                /\ detect_time_last' = tm.detect_time_last
                /\ pc' = "return"
                /\ UNCHANGED raised
    /\ UNCHANGED <<current, i, header, n_reappeared, expected_crashes_map,
                   classification, statistics, result>>

\* lines 194-234: the KeyError of a subscript of lines 205-215 leaves the function
Return ==
    /\ pc = "return"
    /\ LET ret == ReturnExperiment(current,
                       [seed |-> seed,
                        repetition |-> repetition,
                        expected_first_multicast |-> expected_first_multicast,
                        ratio_max_wait_and_failure |-> ratio_max_wait_and_failure,
                        ratio_expected_first_multicast |-> ratio_expected_first_multicast,
                        ratio_miss_delta |-> ratio_miss_delta],
                       n_reappeared,
                       [n_scheduled |-> n_scheduled,
                        n_expected_detected |-> n_expected_detected,
                        n_detected |-> n_detected,
                        n_duplicated |-> n_duplicated,
                        n_wrong |-> n_wrong,
                        rate_detected_crashes |-> rate_detected_crashes,
                        correct |-> correct],
                       [detect_time_average |-> detect_time_average,
                        detect_time_stdev |-> detect_time_stdev,
                        detect_time_first |-> detect_time_first,
                        detect_time_last |-> detect_time_last])
       IN  IF ret.raised # NoException
           THEN /\ raised' = ret.raised
                /\ pc' = "raised"
                /\ UNCHANGED result
           ELSE /\ result' = ret.value
                /\ pc' = "done"
                /\ UNCHANGED raised
    /\ UNCHANGED <<current, i, header, n_reappeared, expected_crashes_map,
                   classification, statistics, timing>>

Next ==
    \/ Prepare
    \/ Classify
    \/ ComputeStatistics
    \/ ComputeTiming
    \/ Return

\* parse_report on any report of the bounded input space
Spec == Init /\ [][Next]_vars

\* parse_report on reports with schedules of distinct nodes and larger node counts
SpecExpect == InitExpect /\ [][Next]_vars

\* parse_report on the scenario of 5 nodes and the runs around it
SpecScenario == InitScenario /\ [][Next]_vars

\* parse_report on reports that carry or lack the optional fields
SpecOptional == InitOptional /\ [][Next]_vars

\* the outcome of the call: what the step-by-step run raised or returned
Outcome ==
    IF pc = "raised" THEN [raised |-> raised]
    ELSE [raised |-> NoException, value |-> result]

\* the run agrees with the function computed in one piece
RunIsParseReport ==
    pc \in {"done", "raised"} => Outcome = ParseReport(current)

\* ------------------------------------------------------------------ parse_report of main.py, its steps

(***************************************************************************)
(* The same report can be given to parse_report of main.py.  Its locals    *)
(* have the names of parsey.py and are kept in the same variables          *)
(* (ratio_expected_first_multicast holds                                   *)
(* ratio_expected_first_multicast_and_failure; n_reappeared,               *)
(* ratio_miss_delta, detect_time_first and detect_time_last do not exist   *)
(* there and stay unset; duplicated_crashes and wrong_crashes are dicts).  *)
(* Its positions are                                                       *)
(*   "classify_main"   in the loop of main.py lines 112-132                *)
(*   "statistics_main" before main.py line 135                             *)
(*   "timing_main"     before main.py line 154                             *)
(*   "return_main"     before main.py line 172                             *)
(*   "done_main"       the Experiment was returned                         *)
(*   "raised_main"     an exception left the function                      *)
(***************************************************************************)

\* where the loop of main.py line 112 goes once k crashes are processed
AfterCrashMain(k) ==
    IF k < Len(reported_crashes) THEN "classify_main" ELSE "statistics_main"

\* main.py lines 71-109
PrepareMain ==
    /\ pc = "prepare"
    /\ LET hd == HeaderMain(current)
       IN  IF hd.raised # NoException
           THEN /\ raised' = hd.raised
                /\ pc' = "raised_main"
                /\ UNCHANGED <<header, expected_crashes_map, classification>>
           ELSE /\ seed' = hd.seed
                /\ repetition' = hd.repetition
                /\ expected_first_multicast' = hd.expected_first_multicast
                /\ ratio_max_wait_and_failure' = hd.ratio_max_wait_and_failure
                /\ ratio_expected_first_multicast' =
                       hd.ratio_expected_first_multicast_and_failure
                /\ expected_crashes_map' = ExpectedCrashesMap(expected_crashes)
                /\ correct_crashes' = EmptyClassificationMain.correct_crashes
                /\ correct_src' = EmptyClassificationMain.correct_src
                /\ duplicated_crashes' = EmptyClassificationMain.duplicated_crashes
                /\ wrong_crashes' = EmptyClassificationMain.wrong_crashes
                /\ pc' = AfterCrashMain(0)
                /\ UNCHANGED <<ratio_miss_delta, raised>>
    /\ UNCHANGED <<current, i, n_reappeared, statistics, timing, result>>

\* main.py lines 112-132: one iteration of the loop
ClassifyMain ==
    /\ pc = "classify_main"
    /\ i < Len(reported_crashes)
    /\ LET cls == ClassifyCrashMain(expected_crashes_map, Classification, i + 1,
                                    reported_crashes[i + 1])
       IN  /\ correct_crashes' = cls.correct_crashes
           /\ correct_src' = cls.correct_src
           /\ duplicated_crashes' = cls.duplicated_crashes
           /\ wrong_crashes' = cls.wrong_crashes
    /\ i' = i + 1
    /\ pc' = AfterCrashMain(i + 1)
    /\ UNCHANGED <<current, header, n_reappeared, expected_crashes_map, statistics,
                   timing, result, raised>>

\* main.py lines 135-151: the ZeroDivisionError of line 148 leaves the function
ComputeStatisticsMain ==
    /\ pc = "statistics_main"
    /\ LET st == StatisticsMain(current, Classification)
       IN  /\ n_scheduled' = st.n_scheduled
           /\ n_expected_detected' = st.n_expected_detected
           /\ n_detected' = st.n_detected
           /\ n_duplicated' = st.n_duplicated
           /\ n_wrong' = st.n_wrong
           /\ IF st.raised # NoException
              THEN /\ raised' = st.raised
                   /\ pc' = "raised_main"
                   /\ UNCHANGED <<rate_detected_crashes, correct>>
              ELSE /\ rate_detected_crashes' = st.rate_detected_crashes
                   /\ correct' = st.correct
                   /\ pc' = "timing_main"
                   /\ UNCHANGED raised
    /\ UNCHANGED <<current, i, header, n_reappeared, expected_crashes_map,
                   classification, timing, result>>

\* main.py lines 154-169: the AssertionError of line 158 leaves the function
ComputeTimingMain ==
    /\ pc = "timing_main"
    /\ LET tm == TimingMain(expected_crashes_map, Classification)
       IN  IF tm.raised # NoException
           THEN /\ raised' = tm.raised
                /\ pc' = "raised_main"
                /\ UNCHANGED <<delays, detect_time_average, detect_time_stdev>>
           ELSE /\ delays' = tm.delays
                /\ detect_time_average' = tm.detect_time_average
                /\ detect_time_stdev' = tm.detect_time_stdev
                /\ pc' = "return_main"
                /\ UNCHANGED raised
    /\ UNCHANGED <<current, i, header, n_reappeared, expected_crashes_map,
                   classification, statistics, detect_time_first, detect_time_last,
                   result>>

\* main.py lines 172-208: the KeyError of a subscript of lines 183-193 leaves
\* the function
ReturnMain ==
    /\ pc = "return_main"
    /\ LET ret == ReturnExperimentMain(current,
                       [seed |-> seed,
                        repetition |-> repetition,
                        expected_first_multicast |-> expected_first_multicast,
                        ratio_max_wait_and_failure |-> ratio_max_wait_and_failure,
                        ratio_expected_first_multicast_and_failure |->
                            ratio_expected_first_multicast],
                       [n_scheduled |-> n_scheduled,
                        n_expected_detected |-> n_expected_detected,
                        n_detected |-> n_detected,
                        n_duplicated |-> n_duplicated,
                        n_wrong |-> n_wrong,
                        rate_detected_crashes |-> rate_detected_crashes,
                        correct |-> correct],
                       [detect_time_average |-> detect_time_average,
                        detect_time_stdev |-> detect_time_stdev])
       IN  IF ret.raised # NoException
           THEN /\ raised' = ret.raised
                /\ pc' = "raised_main"
                /\ UNCHANGED result
           ELSE /\ result' = ret.value
                /\ pc' = "done_main"
                /\ UNCHANGED raised
    /\ UNCHANGED <<current, i, header, n_reappeared, expected_crashes_map,
                   classification, statistics, timing>>

NextMain ==
    \/ PrepareMain
    \/ ClassifyMain
    \/ ComputeStatisticsMain
    \/ ComputeTimingMain
    \/ ReturnMain

\* the report is given to parse_report of parsey.py or to that of main.py
SpecBoth == Init /\ [][Next \/ NextMain]_vars

\* the outcome of the call of main.py's parse_report
OutcomeMain ==
    IF pc = "raised_main" THEN [raised |-> raised]
    ELSE [raised |-> NoException, value |-> result]

\* the run of main.py's steps agrees with the function computed in one piece
RunIsParseReportMain ==
    pc \in {"done_main", "raised_main"} => OutcomeMain = ParseReportMain(current)

\* ------------------------------------------------------------------ the input, read directly

\* node n has an entry in expected_crashes
IsScheduled(n) == \E j \in DOMAIN expected_crashes : expected_crashes[j].node = n

\* the scheduled delta of a scheduled node (of its last entry, when it has two)
ScheduledDelta(n) ==
    LET entries == {j \in DOMAIN expected_crashes : expected_crashes[j].node = n}
    IN  expected_crashes[SetMax(entries)].delta

\* report j names a scheduled node at or after its scheduled delta
Qualifies(j) ==
    /\ IsScheduled(reported_crashes[j].node)
    /\ reported_crashes[j].delta >= ScheduledDelta(reported_crashes[j].node)

KeyOf(j) == NodeAndReporter(reported_crashes[j].node, reported_crashes[j].reporter)

Processed == pc # "prepare"

Finished == pc \in {"done", "raised"}

\* line 160 was reached: the locals of lines 147-159 are assigned
StatisticsReached == pc \in {"timing", "return", "done", "raised"}

\* ------------------------------------------------------------------ C1

\* C1: every iteration of the classification loop follows the rule: a report
\* (n, r, d) of a scheduled node n with scheduled delta s and d >= s becomes the
\* item (n,r) -> d of correct when correct has no key (n,r), and is appended to
\* duplicated otherwise; every other report is appended to wrong; nothing else
\* changes in the three collections.
ClassifiedByRule ==
    [][pc = "classify" =>
        LET n == reported_crashes[i + 1].node
            r == reported_crashes[i + 1].reporter
            d == reported_crashes[i + 1].delta
            inCorrect == \E j \in DOMAIN correct_crashes :
                             correct_crashes[j].key = NodeAndReporter(n, r)
        IN  IF IsScheduled(n) /\ d >= ScheduledDelta(n)
            THEN IF ~inCorrect
                 THEN /\ correct_crashes' =
                            Append(correct_crashes,
                                   [key |-> NodeAndReporter(n, r), delta |-> d])
                      /\ duplicated_crashes' = duplicated_crashes
                      /\ wrong_crashes' = wrong_crashes
                 ELSE /\ duplicated_crashes' = Append(duplicated_crashes, i + 1)
                      /\ correct_crashes' = correct_crashes
                      /\ wrong_crashes' = wrong_crashes
            ELSE /\ wrong_crashes' = Append(wrong_crashes, i + 1)
                 /\ correct_crashes' = correct_crashes
                 /\ duplicated_crashes' = duplicated_crashes]_vars

\* a run that classified a report as correct and then a too-early report of a
\* scheduled node as wrong
ClassifiedByRuleWitness ==
    /\ pc = "statistics"
    /\ Len(correct_crashes) = 1
    /\ wrong_crashes = <<2>>
    /\ IsScheduled(reported_crashes[2].node)
    /\ reported_crashes[2].delta < ScheduledDelta(reported_crashes[2].node)

\* ------------------------------------------------------------------ C2

\* C2: after any prefix of k processed reports the reports behind correct,
\* duplicated and wrong are pairwise disjoint, together they are the k reports,
\* and the three sizes add up to k; the counts taken at lines 157-159 add up to
\* the length of reported_crashes.
ClassifierPartitions ==
    Processed =>
        LET C == SeqRange(correct_src)
            D == SeqRange(duplicated_crashes)
            W == SeqRange(wrong_crashes)
        IN  /\ C \cap D = {} /\ C \cap W = {} /\ D \cap W = {}
            /\ C \cup D \cup W = 1..i
            /\ Len(correct_crashes) + Len(duplicated_crashes) + Len(wrong_crashes) = i
            /\ StatisticsReached =>
                   n_detected + n_duplicated + n_wrong = Len(reported_crashes)
            /\ pc = "done" =>
                   result.n_correctly_detected_crashes
                       + result.n_duplicated_reported_crashes
                       + result.n_wrongly_reported_crashes = Len(reported_crashes)

\* a finished run with one correct and one duplicated report
ClassifierPartitionsWitness ==
    /\ pc = "done"
    /\ Len(reported_crashes) = 2
    /\ result.n_correctly_detected_crashes = 1
    /\ result.n_duplicated_reported_crashes = 1

\* ------------------------------------------------------------------ C3

\* the first processed report that qualifies for the key
FirstQualifying(key) ==
    SetMin({j \in 1..i : KeyOf(j) = key /\ Qualifies(j)})

\* correct has one item per key, each with the delta of the first processed
\* report that qualified for its key
CorrectHoldsFirst ==
    /\ \A j, k \in DOMAIN correct_crashes :
           correct_crashes[j].key = correct_crashes[k].key => j = k
    /\ \A j \in DOMAIN correct_crashes :
           /\ \E k \in 1..i : KeyOf(k) = correct_crashes[j].key /\ Qualifies(k)
           /\ correct_crashes[j].delta =
                  reported_crashes[FirstQualifying(correct_crashes[j].key)].delta

\* C3: at every point of the processing correct holds at most one item per
\* (node, reporter) key, the delta of an item is the delta of the first report in
\* input order that qualified for the key, and no step overwrites or removes an
\* item of correct.
CorrectKeepsFirst ==
    [][/\ Processed' => CorrectHoldsFirst'
       /\ Processed =>
              \A j \in DOMAIN correct_crashes :
                  j \in DOMAIN correct_crashes' /\ correct_crashes'[j] = correct_crashes[j]
      ]_vars

\* a later report of the same key, with another delta, was classified and the
\* first one is still the item of correct
CorrectKeepsFirstWitness ==
    /\ pc = "statistics"
    /\ Len(reported_crashes) = 2
    /\ KeyOf(1) = KeyOf(2)
    /\ Qualifies(1) /\ Qualifies(2)
    /\ reported_crashes[2].delta < reported_crashes[1].delta
    /\ Len(correct_crashes) = 1
    /\ correct_crashes[1].delta = reported_crashes[1].delta

\* ------------------------------------------------------------------ C4

\* what the verdict must be, from the collections and the record
VerdictExpected ==
    /\ n_expected_detected = RatInt(Len(correct_crashes))
    /\ Len(duplicated_crashes) = 0
    /\ Len(wrong_crashes) = 0
    /\ ("reappeared_nodes" \in DOMAIN current.result
            => Len(current.result.reappeared_nodes) = 0)

\* C4: the verdict `correct` computed at line 163, and returned in the
\* Experiment, is true exactly when the number of correct detections equals the
\* expected number, no report is duplicated, none is wrong and no node reappeared.
VerdictRule ==
    /\ pc \in {"timing", "return", "done"} => (correct <=> VerdictExpected)
    /\ pc = "done" => (result.correct <=> VerdictExpected)

\* a returned verdict of true with a detection
VerdictRuleWitness ==
    /\ pc = "done"
    /\ result.correct
    /\ result.n_correctly_detected_crashes > 0
    /\ "reappeared_nodes" \in DOMAIN current.result

\* ------------------------------------------------------------------ C5, C6

Orderings(n) ==
    {p \in [1..n -> 1..n] : \A j, k \in 1..n : p[j] = p[k] => j = k}

\* the record with its reported crashes in the order p
Reordered(rec, p) ==
    [rec EXCEPT !.result.reported_crashes = [j \in DOMAIN @ |-> @[p[j]]]]

\* the counts of lines 157-159 and the verdict of a call on rec (no verdict when
\* line 160 raises)
CountsAndVerdict(rec) ==
    LET map == ExpectedCrashesMap(rec.result.expected_crashes)
        cls == ClassifyPrefix(map, rec.result.reported_crashes,
                              Len(rec.result.reported_crashes))
        st == Statistics(rec, cls, NReappeared(rec))
        counts == [raised |-> st.raised, n_detected |-> st.n_detected,
                   n_duplicated |-> st.n_duplicated, n_wrong |-> st.n_wrong]
    IN  IF st.raised # NoException THEN counts
        ELSE [correct |-> st.correct] @@ counts

\* the same, of the run
CountsAndVerdictOfRun ==
    LET counts == [raised |-> IF pc = "raised" THEN raised ELSE NoException,
                   n_detected |-> n_detected,
                   n_duplicated |-> n_duplicated, n_wrong |-> n_wrong]
    IN  IF pc = "raised" THEN counts
        ELSE [correct |-> correct] @@ counts

\* C5: a call on any reordering of the reported crashes of the run, with the same
\* schedule and settings, has the same counts n_detected, n_duplicated and n_wrong
\* and the same verdict as the run.
OrderIndependentCounts ==
    Finished =>
        \A p \in Orderings(Len(reported_crashes)) :
            CountsAndVerdict(Reordered(current, p)) = CountsAndVerdictOfRun

\* a finished run on two reports of one key with different deltas, both at or
\* after the scheduled delta: the order decides which one is the item of correct
OrderIndependentCountsWitness ==
    /\ pc = "done"
    /\ Len(reported_crashes) = 2
    /\ KeyOf(1) = KeyOf(2)
    /\ Qualifies(1) /\ Qualifies(2)
    /\ reported_crashes[1].delta # reported_crashes[2].delta
    /\ result.n_duplicated_reported_crashes = 1

\* C6 as stated: a call on any reordering of the reported crashes returns the
\* statistics of the run, the timing statistics included.
OrderIndependentStatistics ==
    Finished =>
        \A p \in Orderings(Len(reported_crashes)) :
            ParseReport(Reordered(current, p)) = Outcome

\* the reports that qualify for one key all carry the same delta
OneDeltaPerKey ==
    \A j, k \in DOMAIN reported_crashes :
        (KeyOf(j) = KeyOf(k) /\ Qualifies(j) /\ Qualifies(k))
            => reported_crashes[j].delta = reported_crashes[k].delta

\* the Experiment without its timing statistics
WithoutTiming(o) ==
    IF o.raised # NoException THEN o
    ELSE [f \in DOMAIN o.value \ {"detect_time_average", "detect_time_stdev",
                                  "detect_time_first", "detect_time_last"}
             |-> o.value[f]]

\* C6, amended: a call on any reordering of the reported crashes returns the
\* same statistics as the run apart from the timing statistics, and the same
\* timing statistics too when the reports that qualify for one key all carry the
\* same delta.
OrderIndependentUpToFirstSlot ==
    Finished =>
        \A p \in Orderings(Len(reported_crashes)) :
            /\ WithoutTiming(ParseReport(Reordered(current, p))) = WithoutTiming(Outcome)
            /\ OneDeltaPerKey => ParseReport(Reordered(current, p)) = Outcome

\* a finished run with two detections of different keys and different deltas
OrderIndependentUpToFirstSlotWitness ==
    /\ pc = "done"
    /\ Len(reported_crashes) = 2
    /\ OneDeltaPerKey
    /\ result.n_correctly_detected_crashes = 2
    /\ reported_crashes[1].delta > reported_crashes[2].delta

\* ------------------------------------------------------------------ C7, C8, C9

\* the sum of (n_nodes - k) for k = 1..n
RECURSIVE SumOfAlive(_, _)
SumOfAlive(n, n_nodes) ==
    IF n = 0 THEN 0 ELSE (n_nodes - n) + SumOfAlive(n - 1, n_nodes)

Sequential == ~current.settings.simulate_catastrophe

\* C7: in a sequential run with 0 <= n_scheduled <= n_nodes the expectation
\* computed at line 155 is the sum of (n_nodes - k) for k = 1..n_scheduled.
SequentialIsSumOfAlive ==
    (StatisticsReached /\ Sequential
        /\ n_scheduled <= current.settings.number_of_nodes)
    => n_expected_detected =
           RatInt(SumOfAlive(n_scheduled, current.settings.number_of_nodes))

\* a sequential run of 5 nodes with 3 scheduled crashes
SequentialIsSumOfAliveWitness ==
    /\ pc = "done"
    /\ Sequential
    /\ n_scheduled = 3
    /\ current.settings.number_of_nodes = 5
    /\ result.n_expected_detected_crashes = RatInt(9)

\* the expectation the other model gives for the schedule and node count of the run
OtherModelExpectation ==
    IF Sequential
    THEN ExpectedCatastrophe(n_scheduled, current.settings.number_of_nodes)
    ELSE ExpectedSequential(n_scheduled, current.settings.number_of_nodes)

\* C8 as stated: with 0 <= n_scheduled <= n_nodes the two models give the same
\* expectation exactly when n_scheduled is 0 or n_nodes.
ModelsAgreeAtZeroOrAll ==
    (StatisticsReached /\ n_scheduled <= current.settings.number_of_nodes)
    => ((n_expected_detected = OtherModelExpectation)
            <=> n_scheduled \in {0, current.settings.number_of_nodes})

\* C8, amended: with 0 <= n_scheduled <= n_nodes the two models give the same
\* expectation exactly when n_scheduled is 0 or 1.
ModelsAgreeAtZeroOrOne ==
    (StatisticsReached /\ n_scheduled <= current.settings.number_of_nodes)
    => ((n_expected_detected = OtherModelExpectation) <=> n_scheduled \in {0, 1})

\* a run with one scheduled crash among three nodes, where the models agree
ModelsAgreeAtZeroOrOneWitness ==
    /\ pc = "done"
    /\ n_scheduled = 1
    /\ current.settings.number_of_nodes = 3
    /\ n_expected_detected = OtherModelExpectation

\* n_nodes/2 < n_scheduled < n_nodes, in a sequential run
PastHalf ==
    /\ StatisticsReached
    /\ Sequential
    /\ 2 * n_scheduled > current.settings.number_of_nodes
    /\ n_scheduled < current.settings.number_of_nodes

\* C9 as stated: past n_nodes/2 one more scheduled crash does not raise the
\* sequential expectation.
SequentialNonIncreasingPastHalf ==
    PastHalf =>
        RatLeq(ExpectedSequential(n_scheduled + 1, current.settings.number_of_nodes),
               n_expected_detected)

\* C9, amended: for n_nodes/2 < n_scheduled < n_nodes one more scheduled crash
\* does not lower the sequential expectation, and leaves it the same only when
\* n_scheduled = n_nodes - 1.
SequentialNonDecreasingPastHalf ==
    PastHalf =>
        LET next == ExpectedSequential(n_scheduled + 1,
                                       current.settings.number_of_nodes)
        IN  /\ RatLeq(n_expected_detected, next)
            /\ (next = n_expected_detected
                    <=> n_scheduled = current.settings.number_of_nodes - 1)

\* a sequential run of 5 nodes with 3 scheduled crashes: 9 expected, 10 with 4
SequentialNonDecreasingPastHalfWitness ==
    /\ pc = "done"
    /\ PastHalf
    /\ n_scheduled = 3
    /\ current.settings.number_of_nodes = 5
    /\ ExpectedSequential(4, 5) = RatInt(10)

\* ------------------------------------------------------------------ C10

\* C10: when no crash is scheduled, or in catastrophe mode every node is
\* scheduled, the expectation is zero; and whenever the expectation is zero line
\* 160 raises ZeroDivisionError: the rate is never assigned and no Experiment is
\* returned.
ZeroExpectationRaises ==
    StatisticsReached =>
        /\ (n_scheduled = 0
            \/ (~Sequential /\ n_scheduled = current.settings.number_of_nodes))
               => n_expected_detected = RatInt(0)
        /\ n_expected_detected = RatInt(0)
               => /\ pc = "raised"
                  /\ raised = "ZeroDivisionError"
                  /\ rate_detected_crashes = Unset
                  /\ result = Unset

\* a catastrophe run in which every node is scheduled, with a correct report
ZeroExpectationRaisesWitness ==
    /\ pc = "raised"
    /\ ~Sequential
    /\ n_scheduled > 0
    /\ n_scheduled = current.settings.number_of_nodes
    /\ n_detected > 0

\* ------------------------------------------------------------------ C11

\* C11 as stated: a run with no scheduled crash has the expectation 0 and
\* returns the verdict true exactly when it has no wrong report, no duplicated
\* report and no reappeared node.
ZeroScheduledVerdict ==
    (Finished /\ Len(expected_crashes) = 0)
    => /\ n_expected_detected = RatInt(0)
       /\ pc = "done"
       /\ result.correct <=> /\ Len(wrong_crashes) = 0
                             /\ Len(duplicated_crashes) = 0
                             /\ NReappeared(current) = 0

\* ------------------------------------------------------------------ C12

\* C12: a sample of no or one delay does not stop parse_report at lines 165-191.
\* With no correct detection the average, the deviation, the first and the last
\* detection time are all -1; with one correct detection of delta d and delay
\* d - s the average is the delay, the deviation is -1 and first and last are d.
\* The returned Experiment carries these values.
DegenerateSamples ==
    [][/\ (pc = "timing" /\ Len(correct_crashes) = 0)
              => /\ pc' = "return"
                 /\ detect_time_average' = RatInt(-1)
                 /\ detect_time_stdev' = RatInt(-1)
                 /\ detect_time_first' = -1
                 /\ detect_time_last' = -1
       /\ (pc = "timing" /\ Len(correct_crashes) = 1)
              => /\ pc' = "return"
                 /\ detect_time_average' =
                        RatInt(correct_crashes[1].delta
                                   - ScheduledDelta(correct_crashes[1].key.node))
                 /\ detect_time_stdev' = RatInt(-1)
                 /\ detect_time_first' = correct_crashes[1].delta
                 /\ detect_time_last' = correct_crashes[1].delta
       /\ (pc = "return" /\ Len(correct_crashes) <= 1)
              => /\ pc' = "done"
                 /\ result'.detect_time_average = detect_time_average
                 /\ result'.detect_time_stdev = detect_time_stdev
                 /\ result'.detect_time_first = detect_time_first
                 /\ result'.detect_time_last = detect_time_last
      ]_vars

\* a returned Experiment of a run with one correct detection, one time unit late
DegenerateSamplesWitness ==
    /\ pc = "done"
    /\ Len(correct_crashes) = 1
    /\ result.detect_time_average = RatInt(1)
    /\ result.detect_time_stdev = RatInt(-1)
    /\ result.detect_time_first = 2

\* ------------------------------------------------------------------ C13

\* two entries of expected_crashes name the same node
HasDuplicateSchedule ==
    \E j, k \in DOMAIN expected_crashes :
        j # k /\ expected_crashes[j].node = expected_crashes[k].node

\* C13 as stated: a record whose expected_crashes names a node twice is rejected
\* with a MalformedRecord error: the call does not get past its preparation, no
\* map is built from the schedule and no summary is produced.
DuplicateScheduleRejected ==
    HasDuplicateSchedule
    => \/ pc = "prepare"
       \/ /\ pc = "raised"
          /\ raised = "MalformedRecord"
          /\ result = Unset

\* ------------------------------------------------------------------ C15

\* C15 as stated: the scenario run returns with 10 expected detections, the
\* correct items (A,C) -> 12 and (B,D) -> 25, the report (A,E,15) as the one
\* duplicated report, no wrong report, the rate 2/10, the verdict false and the
\* delays [2, 5] with the average 3.5.
ScenarioAsStated ==
    (Finished /\ current = ScenarioRecord)
    => /\ pc = "done"
       /\ result.n_expected_detected_crashes = RatInt(10)
       /\ correct_crashes = <<[key |-> NodeAndReporter(1, 3), delta |-> 12],
                              [key |-> NodeAndReporter(2, 4), delta |-> 25]>>
       /\ duplicated_crashes = <<3>>
       /\ wrong_crashes = <<>>
       /\ result.n_duplicated_reported_crashes = 1
       /\ result.n_wrongly_reported_crashes = 0
       /\ result.rate_detected_crashes = Rat(2, 10)
       /\ result.correct = FALSE
       /\ delays = <<2, 5>>
       /\ result.detect_time_average = Rat(7, 2)

\* C15, amended: the scenario run returns with 7 expected detections
\* (2*5 - 2*3/2), the correct items (A,C) -> 12, (B,D) -> 25 and (A,E) -> 15 (the
\* key (A,E) is new, so the third report is a detection), no duplicated and no
\* wrong report, the rate 3/7, the verdict false and the delays [2, 5, 5] with
\* the average 4.
ScenarioAsComputed ==
    (Finished /\ current = ScenarioRecord)
    => /\ pc = "done"
       /\ result.n_expected_detected_crashes = RatInt(7)
       /\ correct_crashes = <<[key |-> NodeAndReporter(1, 3), delta |-> 12],
                              [key |-> NodeAndReporter(2, 4), delta |-> 25],
                              [key |-> NodeAndReporter(1, 5), delta |-> 15]>>
       /\ duplicated_crashes = <<>>
       /\ wrong_crashes = <<>>
       /\ result.n_correctly_detected_crashes = 3
       /\ result.n_duplicated_reported_crashes = 0
       /\ result.n_wrongly_reported_crashes = 0
       /\ result.rate_detected_crashes = Rat(3, 7)
       /\ result.correct = FALSE
       /\ delays = <<2, 5, 5>>
       /\ result.detect_time_average = RatInt(4)

\* the scenario run has returned
ScenarioAsComputedWitness ==
    /\ pc = "done"
    /\ current = ScenarioRecord
    /\ result.n_scheduled_crashes = 2

\* ------------------------------------------------------------------ C14

\* the id encodes what the report does not carry as a field
IdentityRecoverable ==
    /\ "seed" \notin DOMAIN current => Search("seed", current.id) # None
    /\ "repetition" \notin DOMAIN current => Search("repetition", current.id) # None

\* the settings the specification calls optional
OptionalSettings ==
    {"miss_delta", "multicast_max_wait", "multicast_parameter",
     "expected_first_multicast"}

\* an optional field is absent from the report
OptionalFieldAbsent ==
    \/ "seed" \notin DOMAIN current
    \/ "repetition" \notin DOMAIN current
    \/ \E k \in OptionalSettings : k \notin DOMAIN current.settings

\* C14: a report in which an optional field is absent (seed or repetition not a
\* field, or miss_delta, multicast_max_wait, multicast_parameter or
\* expected_first_multicast missing from settings) never makes parse_report
\* fail: the call returns, seed and repetition are the values parsed from id,
\* and the ratio of an absent setting is 0.
AbsentOptionalFieldsRecovered ==
    (pc \in {"done", "raised"} /\ OptionalFieldAbsent /\ IdentityRecoverable) =>
        /\ pc = "done"
        /\ "seed" \notin DOMAIN current
               => result.seed = Search("seed", current.id).group1
        /\ "repetition" \notin DOMAIN current
               => result.repetition = Search("repetition", current.id).group1
        /\ "miss_delta" \notin DOMAIN current.settings
               => result.ratio_miss_delta = RatInt(0)
        /\ "multicast_max_wait" \notin DOMAIN current.settings
               => result.ratio_max_wait_and_failure = RatInt(0)
        /\ "expected_first_multicast" \notin DOMAIN current.settings
               => result.ratio_expected_first_multicast = RatInt(0)

\* ------------------------------------------------------------------ C16

\* the classifier of either variant has started: correct_crashes is a dict
ClassifierStarted ==
    \/ pc \in {"classify", "statistics", "timing", "return", "done",
               "classify_main", "statistics_main", "timing_main", "return_main",
               "done_main"}
    \/ pc \in {"raised", "raised_main"}
           /\ raised \in {"ZeroDivisionError", "AssertionError"}

\* the delay loop of either variant has ended: delays is a list
DelaysComputed == pc \in {"return", "done", "return_main", "done_main"}

\* C16: in both parse_report variants and for every report, every item of
\* correct_crashes has a delta >= the scheduled delta of its node, every
\* detection delay is the report delta minus the scheduled delta and is >= 0,
\* and the assertion of the delay loop never fails.
CorrectNeverEarly ==
    /\ ClassifierStarted =>
           \A j \in DOMAIN correct_crashes :
               /\ IsScheduled(correct_crashes[j].key.node)
               /\ correct_crashes[j].delta >= ScheduledDelta(correct_crashes[j].key.node)
    /\ DelaysComputed =>
           /\ Len(delays) = Len(correct_crashes)
           /\ \A j \in DOMAIN delays :
                  /\ delays[j] = correct_crashes[j].delta
                                     - ScheduledDelta(correct_crashes[j].key.node)
                  /\ delays[j] >= 0
    /\ raised # "AssertionError"

\* main.py's parse_report returned with a detection on time, after a report of a
\* scheduled node below its scheduled delta was classified too
CorrectNeverEarlyWitness ==
    /\ pc = "done_main"
    /\ Len(delays) >= 1
    /\ \E j \in DOMAIN reported_crashes :
           /\ IsScheduled(reported_crashes[j].node)
           /\ reported_crashes[j].delta < ScheduledDelta(reported_crashes[j].node)

\* ------------------------------------------------------------------ C17

\* C17: the two parse_report variants are equivalent on their common fields:
\* for every report with no reappeared nodes that main.py's variant summarises,
\* parsey.py's variant returns the same n_correctly_detected_crashes,
\* n_duplicated_reported_crashes, n_wrongly_reported_crashes and correct.
VariantsAgree ==
    (pc = "done_main" /\ NReappeared(current) = 0) =>
        LET other == ParseReport(current)
        IN  /\ other.raised = NoException
            /\ other.value.n_correctly_detected_crashes
                   = result.n_correctly_detected_crashes
            /\ other.value.n_duplicated_reported_crashes
                   = result.n_duplicated_reported_crashes
            /\ other.value.n_wrongly_reported_crashes
                   = result.n_wrongly_reported_crashes
            /\ other.value.correct = result.correct

====
